---- MODULE Spec2Model ----
(***************************************************************************)
(* Common-Lecturer-Finder: the two front-end scripts of the timetable      *)
(* viewer.  static/app.js is the comparison view (shared lecturers of a    *)
(* section), static/prettier.js is the timetable viewer (grid rendering,   *)
(* break-slot heuristic, image/PDF export).  Each script runs in its own   *)
(* page; the variable view says which page a behaviour is about.           *)
(***************************************************************************)
EXTENDS Integers, Sequences, FiniteSets, TLC

VARIABLES
    view,               \* "comparison" (app.js) or "timetable" (prettier.js)
    sectionsFetch,      \* GET /api/sections of loadSections: "pending", "loaded", "failed"
    sectionSelect,      \* the <select>: [options, value]
    inflight,           \* outstanding data requests, in the order they were issued
    loadingVisible,     \* the loading indicator is shown
    consoleErrors,      \* number of console.error calls
    alerts,             \* number of alert() calls
    lastResolved,       \* history: the data request that resolved last
    data,               \* argument of the last renderTimetable / renderResults call
    courseColors,       \* prettier.js: Map code -> color
    colorIndex,         \* prettier.js: next palette index
    currentSectionName, \* prettier.js: file name stem of the downloads
    sectionTitle,       \* prettier.js: text of #section-title
    timetable,          \* prettier.js: content of #timetable, [head, body]
    containerHidden,    \* prettier.js: #timetable-container has class hidden
    imageBtn,           \* prettier.js: #download-image, [disabled, label]
    pdfBtn,             \* prettier.js: #download-pdf, [disabled, label]
    rasterizing,        \* prettier.js: the exports awaiting html2canvas
    download,           \* prettier.js: the file saved by the last export
    resultsDisplay,     \* app.js: resultsContainer.style.display
    statsDisplay,       \* app.js: statsBar.style.display
    totalCoursesText,   \* app.js: text of #total-courses
    sharedCountText,    \* app.js: text of #shared-count
    resultsHtml         \* app.js: content of resultsContainer

commonVars == <<view, sectionsFetch, sectionSelect, inflight, loadingVisible,
                consoleErrors, alerts, lastResolved, data>>
renderVars == <<courseColors, colorIndex, currentSectionName, sectionTitle,
                timetable, containerHidden>>
exportVars == <<imageBtn, pdfBtn, rasterizing, download>>
cmpVars == <<resultsDisplay, statsDisplay, totalCoursesText, sharedCountText,
             resultsHtml>>
vars == <<commonVars, renderVars, exportVars, cmpVars>>

(***************************************************************************)
(* Bounds of the model.                                                    *)
(***************************************************************************)
MaxInFlight == 2     \* data requests outstanding at once
MaxLog == 1          \* console.error / alert calls counted
MaxCodes == 9        \* distinct course codes outside slot 6 in one timetable
MaxCourses == 2      \* courses in one shared-lecturer response
MaxWidth == 24       \* width of the rasterized canvas
MaxHeight == 14      \* height of the rasterized canvas

(***************************************************************************)
(* prettier.js: constants.                                                 *)
(***************************************************************************)
DAYS == <<"MON", "TUE", "WED", "THU", "FRI">>

COLORS == <<"var(--course-1)", "var(--course-2)", "var(--course-3)",
            "var(--course-4)", "var(--course-5)", "var(--course-6)",
            "var(--course-7)", "var(--course-8)">>

BreakSlot == 6

Abs(x) == IF x < 0 THEN -x ELSE x

Range(s) == {s[i] : i \in DOMAIN s}

(***************************************************************************)
(* The Timetable payloads of GET /api/timetable/{id} and POST /api/upload. *)
(* A payload is [section, time_slots, timetable]; timetable maps a day     *)
(* name to a map from slot index to a cell [code].  A day or a slot that   *)
(* the backend left out is outside the map's DOMAIN.                       *)
(***************************************************************************)
Sections == {"1", "2"}
UploadedSection == "7"

\* course codes of the cells outside slot 6
CodePool == <<"MTH101", "PHY102", "CSC103", "ENG104", "BIO105", "CHM106",
              "STA107", "ECO108", "HIS109", "GEO110", "ART111", "LAW112">>

\* what a slot-6 cell can hold: nothing, an empty code, a one-letter code,
\* a course code
Slot6Values == {"absent", "", "B", "CSC999"}
Slot6Columns == [1..Len(DAYS) -> Slot6Values]

SlotLists == {<<5, 6, 7>>, <<5, 7>>, <<6, 7>>, <<6>>}

\* position of slot among the slots of the list other than slot 6, from 0
OtherIndex(slots, slot) ==
    Cardinality({i \in DOMAIN slots : slots[i] # BreakSlot /\ slots[i] < slot})

OtherCount(slots) == Cardinality({i \in DOMAIN slots : slots[i] # BreakSlot})

\* The grid with column col6 in slot 6 and, in the other slots, p course
\* codes repeating in reading order (none when p = 0).
DayMap(slots, col6, p, d) ==
    [s \in {x \in Range(slots) \cup {BreakSlot} :
              IF x = BreakSlot THEN col6[d] # "absent" ELSE p > 0} |->
        IF s = BreakSlot
        THEN [code |-> col6[d]]
        ELSE [code |-> CodePool[(((d - 1) * OtherCount(slots)
                                   + OtherIndex(slots, s)) % p) + 1]]]

Grid(slots, col6, p) ==
    [day \in {DAYS[d] : d \in {e \in 1..Len(DAYS) :
                                 DOMAIN DayMap(slots, col6, p, e) # {}}} |->
        LET d == CHOOSE e \in 1..Len(DAYS) : DAYS[e] = day
        IN  DayMap(slots, col6, p, d)]

Payload(section, slots, col6, p) ==
    [section |-> section, time_slots |-> slots, timetable |-> Grid(slots, col6, p)]

NoData == [section |-> "", time_slots |-> <<>>, timetable |-> <<>>]

\* every payload of the bounded family
AllPayloads ==
    {Payload("1", slots, col6, p) :
        slots \in SlotLists, col6 \in Slot6Columns, p \in 0..MaxCodes}

\* slot-6 columns of the payloads served in the interleaved runs
BreakColumn == [d \in 1..Len(DAYS) |-> "B"]
ClassColumn == [d \in 1..Len(DAYS) |-> IF d = 2 THEN "CSC999" ELSE "absent"]
ShortColumn == [d \in 1..Len(DAYS) |-> IF d \in {1, 3} THEN "B" ELSE ""]

Grids ==
    {<<<<5, 6, 7>>, BreakColumn, MaxCodes>>,
     <<<<5, 6, 7>>, ClassColumn, 3>>,
     <<<<6, 7>>, ShortColumn, 0>>}

\* the payloads the backend may answer with, by the section asked for
ServedBy ==
    [section \in Sections \cup {UploadedSection} |->
        {Payload(section, g[1], g[2], g[3]) : g \in Grids}]

Served(section) == ServedBy[section]

(***************************************************************************)
(* prettier.js: getCourseColor, on the cache [colors, index].              *)
(***************************************************************************)
\* a getCourseColor that advances the index before it picks the color
GetCourseColorSkipFirst(cache, courseCode) ==
    IF courseCode \notin DOMAIN cache.colors
    THEN [colors |-> cache.colors @@
                     (courseCode :> COLORS[((cache.index + 1) % Len(COLORS)) + 1]),
          index |-> cache.index + 1]
    ELSE cache

GetCourseColor(cache, courseCode) ==
    IF courseCode \notin DOMAIN cache.colors
    THEN [colors |-> cache.colors @@
                     (courseCode :> COLORS[(cache.index % Len(COLORS)) + 1]),
          index |-> cache.index + 1]
    ELSE cache

EmptyCache == [colors |-> <<>>, index |-> 0]

(***************************************************************************)
(* prettier.js: renderTimetable.                                           *)
(***************************************************************************)
DayData(d, day) ==
    IF day \in DOMAIN d.timetable THEN d.timetable[day] ELSE <<>>

\* dayData[slot] && dayData[slot].code
HasCode(dayData, slot) ==
    slot \in DOMAIN dayData /\ dayData[slot].code # ""

DaysWithBreakData(d) ==
    {i \in 1..Len(DAYS) : HasCode(DayData(d, DAYS[i]), BreakSlot)}

HasLongCodes(d) ==
    \E i \in 1..Len(DAYS) :
        /\ HasCode(DayData(d, DAYS[i]), BreakSlot)
        /\ Len(DayData(d, DAYS[i])[BreakSlot].code) > 1

\* a classifier whose day threshold is off by one
HasBreakClassesUpToFour(d) ==
    \/ HasLongCodes(d)
    \/ /\ Cardinality(DaysWithBreakData(d)) > 0
       /\ Cardinality(DaysWithBreakData(d)) <= 4

HasBreakClasses(d) ==
    \/ HasLongCodes(d)
    \/ /\ Cardinality(DaysWithBreakData(d)) > 0
       /\ Cardinality(DaysWithBreakData(d)) < 4

\* a header cell that always shows the slot number
ThNoBreakLabel(slot, isBreak) ==
    [class |-> IF isBreak THEN "break-header" ELSE "", label |-> ToString(slot)]

Th(slot, isBreak) ==
    [class |-> IF isBreak THEN "break-header" ELSE "",
     label |-> IF isBreak THEN "BREAK" ELSE ToString(slot)]

\* the slots.forEach of the header row
RenderHead(d, hasBreakClasses) ==
    [j \in 1..Len(d.time_slots) |->
        Th(d.time_slots[j], d.time_slots[j] = BreakSlot /\ ~hasBreakClasses)]

Td(class, rowspan, code, background) ==
    [class |-> class, rowspan |-> rowspan, code |-> code,
     background |-> background]

\* The slots.forEach of one day row, from slot position j on: acc is
\* [cache, cells], the color cache and the cells emitted so far.
RECURSIVE RenderRow(_, _, _, _, _)
RenderRow(d, hasBreakClasses, dayIndex, j, acc) ==
    IF j > Len(d.time_slots) THEN acc
    ELSE LET slot == d.time_slots[j]
             dayData == DayData(d, DAYS[dayIndex + 1])
         IN  IF slot = BreakSlot /\ ~hasBreakClasses
             THEN IF dayIndex = 0
                  THEN RenderRow(d, hasBreakClasses, dayIndex, j + 1,
                           [cache |-> acc.cache,
                            cells |-> Append(acc.cells,
                                        Td("break-cell", 5, "", ""))])
                  ELSE RenderRow(d, hasBreakClasses, dayIndex, j + 1, acc)
             ELSE IF HasCode(dayData, slot)
                  THEN LET cache == GetCourseColor(acc.cache, dayData[slot].code)
                       IN  RenderRow(d, hasBreakClasses, dayIndex, j + 1,
                               [cache |-> cache,
                                cells |-> Append(acc.cells,
                                            Td("course-cell", 1,
                                               dayData[slot].code,
                                               cache.colors[dayData[slot].code]))])
                  ELSE RenderRow(d, hasBreakClasses, dayIndex, j + 1,
                           [cache |-> acc.cache,
                            cells |-> Append(acc.cells,
                                        Td("empty-cell", 1, "", ""))])

\* The DAYS.forEach, from day index dayIndex on: acc is [cache, rows].
RECURSIVE RenderBody(_, _, _, _)
RenderBody(d, hasBreakClasses, dayIndex, acc) ==
    IF dayIndex >= Len(DAYS) THEN acc
    ELSE LET row == RenderRow(d, hasBreakClasses, dayIndex, 1,
                        [cache |-> acc.cache, cells |-> <<>>])
         IN  RenderBody(d, hasBreakClasses, dayIndex + 1,
                 [cache |-> row.cache, rows |-> Append(acc.rows, row.cells)])

\* a render that keeps the cache of the render before it
KeepCache(cache) == cache

\* courseColors.clear(); colorIndex = 0
ResetCache(cache) == EmptyCache

NoTable == [head |-> <<>>, body |-> <<>>]

\* a title taken from the select instead of the response
TitleOfSelection(section) == "SECTION " \o sectionSelect.value

\* `SECTION ${data.section}`
TitleOf(section) == "SECTION " \o section

RenderTimetable(d) ==
    LET hasBreakClasses == HasBreakClasses(d)
        out == RenderBody(d, hasBreakClasses, 0,
                   [cache |-> ResetCache([colors |-> courseColors,
                                          index |-> colorIndex]),
                    rows |-> <<>>])
    IN  /\ courseColors' = out.cache.colors
        /\ colorIndex' = out.cache.index
        /\ currentSectionName' = "Section_" \o d.section
        /\ sectionTitle' = TitleOf(d.section)
        /\ timetable' = [head |-> RenderHead(d, hasBreakClasses), body |-> out.rows]
        /\ containerHidden' = FALSE
        /\ data' = d

\* showLoading / hideLoading of prettier.js
ShowLoading ==
    /\ loadingVisible' = TRUE
    /\ containerHidden' = TRUE

HideLoading == loadingVisible' = FALSE

(***************************************************************************)
(* The state after DOMContentLoaded: loadSections has issued its fetch.    *)
(* The pages' markup is not part of the scripts: the loading indicator,    *)
(* the timetable container and the stats bar start hidden, the counters    *)
(* at 0, and the select holds the empty placeholder option only.           *)
(***************************************************************************)
NoRequest == [kind |-> "none", section |-> "", ok |-> FALSE]

ImageLabel == "Download as Image"
PdfLabel == "Download as PDF"
NoDownload == [type |-> "none", canvas |-> <<0, 0>>, width |-> 0, height |-> 0,
               page |-> <<0, 0>>]

InitialHtml == [kind |-> "initial", message |-> "", cards |-> <<>>]

Init ==
    /\ view \in {"comparison", "timetable"}
    /\ sectionsFetch = "pending"
    /\ sectionSelect = [options |-> {}, value |-> ""]
    /\ inflight = <<>>
    /\ loadingVisible = FALSE
    /\ consoleErrors = 0
    /\ alerts = 0
    /\ lastResolved = NoRequest
    /\ data = NoData
    /\ courseColors = <<>>
    /\ colorIndex = 0
    /\ currentSectionName = "timetable"
    /\ sectionTitle = ""
    /\ timetable = NoTable
    /\ containerHidden = TRUE
    /\ imageBtn = [disabled |-> FALSE, label |-> ImageLabel]
    /\ pdfBtn = [disabled |-> FALSE, label |-> PdfLabel]
    /\ rasterizing = {}
    /\ download = NoDownload
    /\ resultsDisplay = ""
    /\ statsDisplay = "none"
    /\ totalCoursesText = "0"
    /\ sharedCountText = "0"
    /\ resultsHtml = InitialHtml

Remove(s, i) == [j \in 1..(Len(s) - 1) |-> IF j < i THEN s[j] ELSE s[j + 1]]

(***************************************************************************)
(* loadSections, the same in both scripts.                                 *)
(***************************************************************************)
LoadSectionsLoaded ==
    /\ sectionsFetch = "pending"
    /\ sectionsFetch' = "loaded"
    /\ sectionSelect' = [sectionSelect EXCEPT !.options = @ \cup Sections]
    /\ UNCHANGED <<view, inflight, loadingVisible, consoleErrors, alerts,
                   lastResolved, data, renderVars, exportVars, cmpVars>>

\* fetch rejects, the body is no JSON, or it holds no sections array
LoadSectionsFailed ==
    /\ sectionsFetch = "pending"
    /\ consoleErrors < MaxLog
    /\ sectionsFetch' = "failed"
    /\ consoleErrors' = consoleErrors + 1
    /\ UNCHANGED <<view, sectionSelect, inflight, loadingVisible, alerts,
                   lastResolved, data, renderVars, exportVars, cmpVars>>

(***************************************************************************)
(* prettier.js: the timetable viewer.                                      *)
(***************************************************************************)
\* the change listener of the select, up to the fetch of loadTimetable
SelectTimetable(s) ==
    /\ view = "timetable"
    /\ s \in sectionSelect.options \cup {""}
    /\ s # sectionSelect.value
    /\ sectionSelect' = [sectionSelect EXCEPT !.value = s]
    /\ IF s # ""
       THEN /\ Len(inflight) < MaxInFlight
            /\ ShowLoading
            /\ inflight' = Append(inflight, [kind |-> "timetable", section |-> s])
       ELSE UNCHANGED <<inflight, loadingVisible, containerHidden>>
    /\ UNCHANGED <<view, sectionsFetch, consoleErrors, alerts, lastResolved, data,
                   courseColors, colorIndex, currentSectionName, sectionTitle,
                   timetable, exportVars, cmpVars>>

\* the file input's change listener or a dropped PDF, up to the fetch of
\* uploadAndParse
UploadFile ==
    /\ view = "timetable"
    /\ Len(inflight) < MaxInFlight
    /\ ShowLoading
    /\ inflight' = Append(inflight, [kind |-> "upload", section |-> UploadedSection])
    /\ UNCHANGED <<view, sectionsFetch, sectionSelect, consoleErrors, alerts,
                   lastResolved, data, courseColors, colorIndex,
                   currentSectionName, sectionTitle, timetable, exportVars,
                   cmpVars>>

\* a dropped file that is no PDF
DropOtherFile ==
    /\ view = "timetable"
    /\ alerts < MaxLog
    /\ alerts' = alerts + 1
    /\ UNCHANGED <<view, sectionsFetch, sectionSelect, inflight, loadingVisible,
                   consoleErrors, lastResolved, data, renderVars, exportVars,
                   cmpVars>>

\* loadTimetable after its awaits, the response being a Timetable
TimetableLoaded(i, d) ==
    /\ view = "timetable"
    /\ i \in DOMAIN inflight
    /\ inflight[i].kind = "timetable"
    /\ RenderTimetable(d)
    /\ HideLoading
    /\ inflight' = Remove(inflight, i)
    /\ lastResolved' = [kind |-> "timetable", section |-> inflight[i].section,
                        ok |-> TRUE]
    /\ UNCHANGED <<view, sectionsFetch, sectionSelect, consoleErrors, alerts,
                   exportVars, cmpVars>>

\* the catch and finally of loadTimetable / uploadAndParse: the fetch
\* rejects, the body is no JSON, or it is {error}
LoadFailed(i) ==
    /\ view = "timetable"
    /\ i \in DOMAIN inflight
    /\ inflight[i].kind \in {"timetable", "upload"}
    /\ consoleErrors < MaxLog
    /\ alerts < MaxLog
    /\ consoleErrors' = consoleErrors + 1
    /\ alerts' = alerts + 1
    /\ HideLoading
    /\ inflight' = Remove(inflight, i)
    /\ lastResolved' = [kind |-> inflight[i].kind, section |-> inflight[i].section,
                        ok |-> FALSE]
    /\ UNCHANGED <<view, sectionsFetch, sectionSelect, data, renderVars,
                   exportVars, cmpVars>>

\* uploadAndParse after its awaits, the response being a Timetable
UploadParsed(i, d) ==
    /\ view = "timetable"
    /\ i \in DOMAIN inflight
    /\ inflight[i].kind = "upload"
    /\ sectionSelect' = [sectionSelect EXCEPT !.value = ""]
    /\ RenderTimetable(d)
    /\ HideLoading
    /\ inflight' = Remove(inflight, i)
    /\ lastResolved' = [kind |-> "upload", section |-> inflight[i].section,
                        ok |-> TRUE]
    /\ UNCHANGED <<view, sectionsFetch, consoleErrors, alerts, exportVars, cmpVars>>

\* the first renderTimetable call of the page, on any payload of the family
RenderFirst ==
    /\ view = "timetable"
    /\ data = NoData
    /\ \E d \in AllPayloads : RenderTimetable(d)
    /\ UNCHANGED <<view, sectionsFetch, sectionSelect, inflight, loadingVisible,
                   consoleErrors, alerts, lastResolved, exportVars, cmpVars>>

(***************************************************************************)
(* prettier.js: the export pipeline.  The canvas html2canvas returns is    *)
(* <<width, height>>.  targetRatio is 16 / 9; the comparisons and roundings*)
(* on ratios are done on cross-multiplied integers.                        *)
(***************************************************************************)
\* Math.round(n / d) for n >= 0, d > 0
RoundDiv(n, d) == (2 * n + d) \div (2 * d)

\* a tolerance of 0.1 instead of 0.01
OffRatioTenth(w, h) == 10 * Abs(9 * w - 16 * h) > 9 * h

\* Math.abs(currentRatio - targetRatio) > 0.01
OffRatio(w, h) == 100 * Abs(9 * w - 16 * h) > 9 * h

\* currentRatio > targetRatio
WiderThanTarget(w, h) == 9 * w > 16 * h

\* the canvas that is exported: the source, or a padded canvas around it
FinalCanvas(w, h) ==
    IF OffRatio(w, h)
    THEN IF WiderThanTarget(w, h)
         THEN <<w, RoundDiv(9 * w, 16)>>
         ELSE <<RoundDiv(16 * h, 9), h>>
    ELSE <<w, h>>

\* pdfWidth / 2, pdfHeight / 2: a length as [num, den]
Half(n) == [num |-> n, den |-> 2]

PdfFormat(final) == <<Half(final[1]), Half(final[2])>>

Canvases == (1..MaxWidth) \X (1..MaxHeight)

\* a finally block that restores the label only
RestoreLabelOnly(label) == [disabled |-> TRUE, label |-> label]

\* the finally block of an export
RestoreButton(label) == [disabled |-> FALSE, label |-> label]

ClickDownloadImage ==
    /\ view = "timetable"
    /\ ~imageBtn.disabled
    /\ imageBtn' = [disabled |-> TRUE, label |-> "Generating..."]
    /\ rasterizing' = rasterizing \cup {"image"}
    /\ UNCHANGED <<commonVars, renderVars, pdfBtn, download, cmpVars>>

\* downloadAsImage after html2canvas resolved with canvas c
ImageExported(c) ==
    /\ "image" \in rasterizing
    /\ LET final == FinalCanvas(c[1], c[2])
       IN  download' = [type |-> "png", canvas |-> c, width |-> final[1],
                        height |-> final[2], page |-> <<0, 0>>]
    /\ imageBtn' = RestoreButton(ImageLabel)
    /\ rasterizing' = rasterizing \ {"image"}
    /\ UNCHANGED <<commonVars, renderVars, pdfBtn, cmpVars>>

\* html2canvas rejects, or the canvas cannot be encoded
ImageFailed ==
    /\ "image" \in rasterizing
    /\ consoleErrors < MaxLog
    /\ alerts < MaxLog
    /\ consoleErrors' = consoleErrors + 1
    /\ alerts' = alerts + 1
    /\ imageBtn' = RestoreButton(ImageLabel)
    /\ rasterizing' = rasterizing \ {"image"}
    /\ UNCHANGED <<view, sectionsFetch, sectionSelect, inflight, loadingVisible,
                   lastResolved, data, renderVars, pdfBtn, download, cmpVars>>

ClickDownloadPdf ==
    /\ view = "timetable"
    /\ ~pdfBtn.disabled
    /\ pdfBtn' = [disabled |-> TRUE, label |-> "Generating..."]
    /\ rasterizing' = rasterizing \cup {"pdf"}
    /\ UNCHANGED <<commonVars, renderVars, imageBtn, download, cmpVars>>

\* downloadAsPdf after html2canvas resolved with canvas c
PdfExported(c) ==
    /\ "pdf" \in rasterizing
    /\ LET final == FinalCanvas(c[1], c[2])
       IN  download' = [type |-> "pdf", canvas |-> c, width |-> final[1],
                        height |-> final[2], page |-> PdfFormat(final)]
    /\ pdfBtn' = RestoreButton(PdfLabel)
    /\ rasterizing' = rasterizing \ {"pdf"}
    /\ UNCHANGED <<commonVars, renderVars, imageBtn, cmpVars>>

\* html2canvas rejects, the canvas cannot be encoded, or jsPDF throws
PdfFailed ==
    /\ "pdf" \in rasterizing
    /\ consoleErrors < MaxLog
    /\ alerts < MaxLog
    /\ consoleErrors' = consoleErrors + 1
    /\ alerts' = alerts + 1
    /\ pdfBtn' = RestoreButton(PdfLabel)
    /\ rasterizing' = rasterizing \ {"pdf"}
    /\ UNCHANGED <<view, sectionsFetch, sectionSelect, inflight, loadingVisible,
                   lastResolved, data, renderVars, imageBtn, download, cmpVars>>

(***************************************************************************)
(* app.js: the comparison view.  A response of GET /api/shared-lecturers   *)
(* is [courses], or a body without a courses field.                        *)
(***************************************************************************)
Courses ==
    {[course_name |-> "Calculus", lecturer_name |-> "Dr. Tan",
      shared_sections |-> <<>>],
     [course_name |-> "Chemistry", lecturer_name |-> "Dr. Wong",
      shared_sections |-> <<"2", "3">>]}

CourseLists == UNION {[1..n -> Courses] : n \in 0..MaxCourses}

Responses ==
    {[courses |-> cs] : cs \in CourseLists} \cup {[error |-> "Section not found"]}

\* a reduce that counts the courses instead of their shared sections
CountCourses(courses) == Len(courses)

\* courses.reduce((sum, c) => sum + c.shared_sections.length, 0)
RECURSIVE TotalShared(_)
TotalShared(courses) ==
    IF courses = <<>> THEN 0
    ELSE TotalShared(SubSeq(courses, 1, Len(courses) - 1))
         + Len(courses[Len(courses)].shared_sections)

Card(course) ==
    [course_name |-> course.course_name,
     lecturer_name |-> course.lecturer_name,
     badges |-> [k \in 1..Len(course.shared_sections) |->
                    "Section " \o course.shared_sections[k]],
     no_shared |-> Len(course.shared_sections) = 0]

EmptyState(message) == [kind |-> "empty", message |-> message, cards |-> <<>>]

ErrorState ==
    [kind |-> "error", message |-> "Failed to load data. Please try again.",
     cards |-> <<>>]

ShowEmptyState(message) ==
    /\ statsDisplay' = "none"
    /\ resultsHtml' = EmptyState(message)
    /\ UNCHANGED <<totalCoursesText, sharedCountText>>

\* !courses || courses.length === 0
NoCourses(resp) == "courses" \notin DOMAIN resp \/ Len(resp.courses) = 0

RenderResults(resp) ==
    IF NoCourses(resp)
    THEN ShowEmptyState("No courses found for this section")
    ELSE /\ statsDisplay' = "flex"
         /\ totalCoursesText' = ToString(Len(resp.courses))
         /\ sharedCountText' = ToString(TotalShared(resp.courses))
         /\ resultsHtml' = [kind |-> "cards", message |-> "",
                            cards |-> [k \in 1..Len(resp.courses) |->
                                          Card(resp.courses[k])]]

\* the change listener of the select, up to the fetch of loadSharedLecturers
SelectShared(s) ==
    /\ view = "comparison"
    /\ s \in sectionSelect.options \cup {""}
    /\ s # sectionSelect.value
    /\ sectionSelect' = [sectionSelect EXCEPT !.value = s]
    /\ IF s # ""
       THEN /\ Len(inflight) < MaxInFlight
            /\ loadingVisible' = TRUE
            /\ resultsDisplay' = "none"
            /\ statsDisplay' = "none"
            /\ inflight' = Append(inflight, [kind |-> "shared", section |-> s])
            /\ UNCHANGED <<totalCoursesText, sharedCountText, resultsHtml>>
       ELSE /\ ShowEmptyState("Select a section to see shared lecturers")
            /\ UNCHANGED <<inflight, loadingVisible, resultsDisplay>>
    /\ UNCHANGED <<view, sectionsFetch, consoleErrors, alerts, lastResolved, data,
                   renderVars, exportVars>>

\* loadSharedLecturers after its awaits: hideLoading, renderResults
SharedLoaded(i, resp) ==
    /\ view = "comparison"
    /\ i \in DOMAIN inflight
    /\ inflight[i].kind = "shared"
    /\ loadingVisible' = FALSE
    /\ resultsDisplay' = "flex"
    /\ RenderResults(resp)
    /\ data' = resp
    /\ inflight' = Remove(inflight, i)
    /\ lastResolved' = [kind |-> "shared", section |-> inflight[i].section,
                        ok |-> TRUE]
    /\ UNCHANGED <<view, sectionsFetch, sectionSelect, consoleErrors, alerts,
                   renderVars, exportVars>>

\* the catch of loadSharedLecturers: the fetch rejects or the body is no JSON
SharedFailed(i) ==
    /\ view = "comparison"
    /\ i \in DOMAIN inflight
    /\ inflight[i].kind = "shared"
    /\ consoleErrors < MaxLog
    /\ consoleErrors' = consoleErrors + 1
    /\ loadingVisible' = FALSE
    /\ resultsDisplay' = "flex"
    /\ resultsHtml' = ErrorState
    /\ inflight' = Remove(inflight, i)
    /\ lastResolved' = [kind |-> "shared", section |-> inflight[i].section,
                        ok |-> FALSE]
    /\ UNCHANGED <<view, sectionsFetch, sectionSelect, alerts, data, renderVars,
                   exportVars, statsDisplay, totalCoursesText, sharedCountText>>

(***************************************************************************)
(* Specifications.  Spec: both pages, with overlapping requests.           *)
(* SpecRender: one renderTimetable call on every payload of the family.    *)
(* SpecExport: the exports of the timetable page, on every canvas.         *)
(***************************************************************************)
Next ==
    \/ LoadSectionsLoaded
    \/ LoadSectionsFailed
    \/ \E s \in Sections \cup {""} : SelectTimetable(s)
    \/ UploadFile
    \/ DropOtherFile
    \/ \E i \in DOMAIN inflight : \E d \in Served(inflight[i].section) :
           TimetableLoaded(i, d)
    \/ \E i \in DOMAIN inflight : \E d \in Served(UploadedSection) :
           UploadParsed(i, d)
    \/ \E i \in DOMAIN inflight : LoadFailed(i)
    \/ \E s \in Sections \cup {""} : SelectShared(s)
    \/ \E i \in DOMAIN inflight : \E resp \in Responses : SharedLoaded(i, resp)
    \/ \E i \in DOMAIN inflight : SharedFailed(i)

Spec == Init /\ [][Next]_vars

InitTimetable == Init /\ view = "timetable"

NextRender == RenderFirst

SpecRender == InitTimetable /\ [][NextRender]_vars

NextExport ==
    \/ ClickDownloadImage
    \/ \E c \in Canvases : ImageExported(c)
    \/ ImageFailed
    \/ ClickDownloadPdf
    \/ \E c \in Canvases : PdfExported(c)
    \/ PdfFailed

SpecExport == InitTimetable /\ [][NextExport]_vars

(***************************************************************************)
(* Properties of one render (SpecRender).                                  *)
(***************************************************************************)
Rendered == data # NoData

\* the slot-6 codes of the rendered payload, day by day ("" where the day
\* or the cell is missing)
Slot6Code(day) ==
    IF day \in DOMAIN data.timetable /\ BreakSlot \in DOMAIN data.timetable[day]
    THEN data.timetable[day][BreakSlot].code
    ELSE ""

Slot6Days == Cardinality({i \in 1..5 : Slot6Code(DAYS[i]) # ""})
Slot6Long == \E i \in 1..5 : Len(Slot6Code(DAYS[i])) > 1

\* the table shows slot 6 as a break: a BREAK header and a break cell
ShownAsBreak ==
    /\ \E j \in DOMAIN timetable.head : timetable.head[j].label = "BREAK"
    /\ \E r \in DOMAIN timetable.body : \E k \in DOMAIN timetable.body[r] :
           timetable.body[r][k].class = "break-cell"

\* the table shows slot 6 as a class column: no BREAK header, no break cell
ShownAsClass ==
    /\ \A j \in DOMAIN timetable.head : timetable.head[j].label # "BREAK"
    /\ \A r \in DOMAIN timetable.body : \A k \in DOMAIN timetable.body[r] :
           timetable.body[r][k].class # "break-cell"

\* C1: a rendered timetable whose time_slots hold slot 6 shows slot 6 as a
\* class column exactly when some day's slot-6 code is longer than one
\* character or 1 to 3 days have a non-empty slot-6 code, and as a break
\* otherwise.
C1_BreakHeuristic ==
    (Rendered /\ BreakSlot \in Range(data.time_slots)) =>
        IF Slot6Long \/ (Slot6Days >= 1 /\ Slot6Days <= 3)
        THEN ShownAsClass
        ELSE ShownAsBreak

\* one-letter codes on four days: shown as a break
C1_Witness ==
    /\ Rendered
    /\ BreakSlot \in Range(data.time_slots)
    /\ Slot6Days = 4
    /\ ~Slot6Long
    /\ ShownAsBreak

\* the course cells of the table in rendering order: rows outer, cells inner
RECURSIVE Flatten(_)
Flatten(rows) ==
    IF rows = <<>> THEN <<>>
    ELSE Head(rows) \o Flatten(Tail(rows))

CourseCells == SelectSeq(Flatten(timetable.body), LAMBDA c : c.class = "course-cell")

\* the payload's codes in the order days MON..FRI outer, time_slots inner,
\* without the empty cells and without slot 6 when slot 6 is a break
PayloadCodes ==
    LET slots == data.time_slots
        n == Len(slots)
        isBreak == ~(Slot6Long \/ (Slot6Days >= 1 /\ Slot6Days <= 3))
        codeAt(i) ==
            LET day == DAYS[((i - 1) \div n) + 1]
                slot == slots[((i - 1) % n) + 1]
            IN  IF slot = BreakSlot /\ isBreak THEN ""
                ELSE IF day \in DOMAIN data.timetable
                        /\ slot \in DOMAIN data.timetable[day]
                     THEN data.timetable[day][slot].code
                     ELSE ""
    IN  SelectSeq([i \in 1..(5 * n) |-> codeAt(i)], LAMBDA c : c # "")

\* 0-based rank of code among the distinct codes of codes, by first occurrence
FirstSeenRank(codes, code) ==
    LET first == CHOOSE i \in DOMAIN codes :
                     codes[i] = code /\ \A j \in 1..(i - 1) : codes[j] # code
    IN  Cardinality({codes[j] : j \in 1..(first - 1)})

\* C2: within one render the course cells carry the payload's codes in
\* rendering order, and the cell of the i-th distinct code (from 0) has
\* background COLORS[i mod 8]; so equal codes have equal backgrounds.
C2_FirstSeenColors ==
    Rendered =>
        /\ Len(CourseCells) = Len(PayloadCodes)
        /\ \A k \in DOMAIN CourseCells :
               /\ CourseCells[k].code = PayloadCodes[k]
               /\ CourseCells[k].background
                    = COLORS[(FirstSeenRank(PayloadCodes, PayloadCodes[k]) % 8) + 1]

\* more than eight distinct codes: the ninth has the first palette entry again
C2_Witness ==
    /\ Rendered
    /\ Cardinality(Range(PayloadCodes)) > 8
    /\ \E k \in DOMAIN CourseCells :
           /\ FirstSeenRank(PayloadCodes, CourseCells[k].code) = 8
           /\ CourseCells[k].background = COLORS[1]
    /\ ShownAsBreak

\* Table layout: the column of every body cell.  A cell takes the first
\* column of its row that no cell of an earlier row spans into; the day
\* cell that opens each row is left out.  acc holds the columns of the
\* rows laid out so far.
\* the cells <<row, index>> of the first r rows
CellsUpTo(body, r) ==
    UNION {{<<r2, k>> : k \in DOMAIN body[r2]} : r2 \in 1..r}

RECURSIVE Layout(_, _)
Layout(body, acc) ==
    IF Len(acc) = Len(body) THEN acc
    ELSE LET r == Len(acc) + 1
             spanned == {acc[p[1]][p[2]] : p \in
                            {q \in CellsUpTo(body, r - 1) :
                                q[1] + body[q[1]][q[2]].rowspan > r}}
             free == (1..(Len(body[r]) + Cardinality(spanned))) \ spanned
             kth(k) == CHOOSE c \in free : Cardinality({x \in free : x < c}) = k - 1
         IN  Layout(body, Append(acc, [k \in DOMAIN body[r] |-> kth(k)]))

\* the cells <<row, index>> that occupy column c of row r
Covering(body, lay, r, c) ==
    {p \in CellsUpTo(body, r) :
        /\ lay[p[1]][p[2]] = c
        /\ p[1] + body[p[1]][p[2]].rowspan > r}

\* the cells <<row, index>> emitted in column c
EmittedIn(body, lay, c) ==
    {p \in CellsUpTo(body, Len(body)) : lay[p[1]][p[2]] = c}

\* C9: the break decision controls the slot-6 column.  Break: the header
\* of slot 6 is BREAK and the column holds one cell, emitted in the first
\* day's row, a break cell with rowspan 5.  Real classes: the header is
\* the slot number and every day row emits its own slot-6 cell.  In both
\* cases there are five day rows and every row has exactly one cell in
\* each column of time_slots, and none beyond.
C9_BreakColumn ==
    Rendered =>
        LET slots == data.time_slots
            body == timetable.body
            lay == Layout(body, <<>>)
        IN  /\ Len(body) = 5
            /\ Len(timetable.head) = Len(slots)
            /\ \A r \in 1..5 :
                   /\ \A c \in 1..Len(slots) :
                          Cardinality(Covering(body, lay, r, c)) = 1
                   /\ \A k \in DOMAIN body[r] : lay[r][k] \in 1..Len(slots)
            /\ \A c \in 1..Len(slots) :
                   IF slots[c] # BreakSlot
                   THEN timetable.head[c].label = ToString(slots[c])
                   ELSE IF HasBreakClasses(data)
                   THEN /\ timetable.head[c].label = "6"
                        /\ timetable.head[c].class # "break-header"
                        /\ \A r \in 1..5 :
                               \E k \in DOMAIN body[r] :
                                   /\ lay[r][k] = c
                                   /\ body[r][k].rowspan = 1
                                   /\ body[r][k].class # "break-cell"
                   ELSE /\ timetable.head[c].label = "BREAK"
                        /\ timetable.head[c].class = "break-header"
                        /\ Cardinality(EmittedIn(body, lay, c)) = 1
                        /\ \E k \in DOMAIN body[1] :
                               /\ lay[1][k] = c
                               /\ body[1][k].class = "break-cell"
                               /\ body[1][k].rowspan = 5

\* a break column between two class columns, with slot-6 data on all days
C9_Witness ==
    /\ Rendered
    /\ data.time_slots = <<5, 6, 7>>
    /\ Slot6Days = 5
    /\ ~HasBreakClasses(data)
    /\ Len(timetable.body[1]) = 3
    /\ Len(timetable.body[2]) = 2
    /\ timetable.body[1][2].class = "break-cell"

(***************************************************************************)
(* Properties of the interleaved runs (Spec).                              *)
(***************************************************************************)
\* C3: after any history of loads and uploads, failed or not, the color
\* cache is the one the payload rendered last determines: it holds that
\* payload's codes and no others, each with the palette entry of its
\* first-seen rank, and colorIndex counts them.
C3_CacheOfLastRender ==
    (view = "timetable" /\ Rendered) =>
        /\ DOMAIN courseColors = Range(PayloadCodes)
        /\ \A code \in DOMAIN courseColors :
               courseColors[code]
                 = COLORS[(FirstSeenRank(PayloadCodes, code) % 8) + 1]
        /\ colorIndex = Cardinality(Range(PayloadCodes))

\* an upload with one course code rendered after a failed load
C3_Witness ==
    /\ view = "timetable"
    /\ Rendered
    /\ alerts >= 1
    /\ lastResolved = [kind |-> "upload", section |-> UploadedSection, ok |-> TRUE]
    /\ colorIndex = 1

\* the sum over the courses of the number of their shared sections
RECURSIVE SharedSum(_)
SharedSum(courses) ==
    IF courses = <<>> THEN 0
    ELSE Len(Head(courses).shared_sections) + SharedSum(Tail(courses))

\* the response that resolved last was a fetched shared-lecturer response
HandledShared ==
    /\ view = "comparison"
    /\ lastResolved.kind = "shared"
    /\ lastResolved.ok

CountersMatch(courses) ==
    /\ totalCoursesText = ToString(Len(courses))
    /\ sharedCountText = ToString(SharedSum(courses))

\* C4 as stated: after a fetched response is handled the counters equal
\* the number of its courses and the sum of their shared-section counts.
C4_Original ==
    (HandledShared /\ "courses" \in DOMAIN data) => CountersMatch(data.courses)

\* C4: after a fetched response with a non-empty course list is handled
\* the counters equal the number of its courses and the sum of their
\* shared-section counts; after one with an empty or missing list the
\* stats bar is hidden (and the counters keep their earlier text).
C4_Counters ==
    HandledShared =>
        IF "courses" \in DOMAIN data /\ Len(data.courses) > 0
        THEN CountersMatch(data.courses)
        ELSE statsDisplay = "none"

\* two courses, one shared with no section and one shared with two
C4_Witness ==
    /\ HandledShared
    /\ statsDisplay = "flex"
    /\ Len(data.courses) = 2
    /\ Len(data.courses[1].shared_sections) = 0
    /\ totalCoursesText = "2"
    /\ sharedCountText = "2"

\* C7 as stated: every failure of a backend call (each one logs to the
\* console) also raises an alert or puts the error message in the
\* results container.
C7_FailuresSurfaced ==
    [][consoleErrors' # consoleErrors =>
          \/ alerts' # alerts
          \/ /\ view = "comparison"
             /\ resultsHtml' = ErrorState
             /\ resultsDisplay' = "flex"]_vars

AllResolved == inflight = <<>> /\ lastResolved.kind # "none"

\* what renderResults shows for a response
ResponseHtml(resp) ==
    IF "courses" \in DOMAIN resp /\ Len(resp.courses) > 0
    THEN [kind |-> "cards", message |-> "",
          cards |-> [k \in 1..Len(resp.courses) |-> Card(resp.courses[k])]]
    ELSE [kind |-> "empty", message |-> "No courses found for this section",
          cards |-> <<>>]

\* the table shows the payload rendered last
TableShowsData ==
    /\ sectionTitle = "SECTION " \o data.section
    /\ Len(CourseCells) = Len(PayloadCodes)
    /\ \A k \in DOMAIN CourseCells : CourseCells[k].code = PayloadCodes[k]

ComparisonShowsLast ==
    /\ resultsDisplay = "flex"
    /\ resultsHtml = IF lastResolved.ok THEN ResponseHtml(data) ELSE ErrorState

\* C8 as stated: once all requests have resolved, the view shown (a
\* timetable that is visible, the content of the results container) is
\* that of the response that resolved last.
C8_Original ==
    AllResolved =>
        IF view = "timetable"
        THEN ~containerHidden =>
                /\ lastResolved.ok
                /\ data.section = lastResolved.section
                /\ TableShowsData
        ELSE sectionSelect.value # "" => ComparisonShowsLast

\* C8: no response is dropped for being stale.  Once all requests have
\* resolved, in any order: the timetable shown is that of the response
\* that resolved last if that response succeeded, whatever section is
\* selected; a failed timetable or upload response renders nothing and
\* leaves the table, the title and the container as they were; in the
\* comparison view the results container shows the cards, the empty state
\* or the error message of the response that resolved last.
C8_LastResponseWins ==
    /\ [](AllResolved =>
            IF view = "timetable"
            THEN lastResolved.ok =>
                   /\ ~containerHidden
                   /\ data.section = lastResolved.section
                   /\ TableShowsData
            ELSE sectionSelect.value # "" => ComparisonShowsLast)
    /\ [][(view = "timetable" /\ consoleErrors' # consoleErrors) =>
             UNCHANGED <<timetable, sectionTitle, containerHidden, data>>]_vars

\* the table of section 1 is shown while section 2 is selected
C8_Witness ==
    /\ AllResolved
    /\ view = "timetable"
    /\ lastResolved = [kind |-> "timetable", section |-> "1", ok |-> TRUE]
    /\ sectionSelect.value = "2"
    /\ sectionTitle = "SECTION 1"
    /\ ~containerHidden

RECURSIVE BadgeSum(_)
BadgeSum(cards) ==
    IF cards = <<>> THEN 0
    ELSE Len(Head(cards).badges) + BadgeSum(Tail(cards))

\* C10 as stated: whenever the stats bar is visible the results container
\* shows course cards, and the counters are those of the cards shown.
C10_StatsBesideCards ==
    (view = "comparison" /\ statsDisplay = "flex") =>
        /\ resultsHtml.kind = "cards"
        /\ totalCoursesText = ToString(Len(resultsHtml.cards))
        /\ sharedCountText = ToString(BadgeSum(resultsHtml.cards))

(***************************************************************************)
(* Properties of the exports (SpecExport).                                 *)
(***************************************************************************)
\* width : height is 16 : 9 up to rounding: one side is the other side's
\* 16:9 partner rounded to the nearest pixel, or the ratio is within 0.01
\* of 16 / 9
NearSixteenNine(w, h) ==
    \/ 2 * Abs(16 * h - 9 * w) <= 16
    \/ 2 * Abs(9 * w - 16 * h) <= 9
    \/ 100 * Abs(9 * w - 16 * h) <= 9 * h

\* C5: the canvas every export saves is 16:9 up to rounding, and the PDF
\* page is half the canvas in both directions, so of the same ratio.
C5_SixteenNine ==
    download.type # "none" =>
        /\ NearSixteenNine(download.width, download.height)
        /\ download.type = "pdf" =>
              /\ 2 * download.page[1].num = download.width * download.page[1].den
              /\ 2 * download.page[2].num = download.height * download.page[2].den
              /\ download.page[1].num * download.page[2].den * download.height
                   = download.page[2].num * download.page[1].den * download.width

\* a PDF of a canvas taller than 16:9, padded in width
C5_Witness ==
    /\ download.type = "pdf"
    /\ download.canvas = <<9, 14>>
    /\ download.width = 25
    /\ download.height = 14

\* C6: a button whose export is not running is enabled and shows its
\* original label, so no button stays disabled or on "Generating..." after
\* its export has finished; and a failing export (it logs to the console)
\* raises one alert and starts no rasterization.
C6_ButtonsRestored ==
    /\ []( /\ "image" \notin rasterizing =>
                imageBtn = [disabled |-> FALSE, label |-> "Download as Image"]
           /\ "pdf" \notin rasterizing =>
                pdfBtn = [disabled |-> FALSE, label |-> "Download as PDF"] )
    /\ [][consoleErrors' # consoleErrors =>
             /\ alerts' = alerts + 1
             /\ rasterizing' \subseteq rasterizing
             /\ rasterizing' # rasterizing]_vars

\* an export has failed and its button is back
C6_Witness ==
    /\ alerts = 1
    /\ rasterizing = {}
    /\ ~imageBtn.disabled
    /\ ~pdfBtn.disabled
    /\ imageBtn.label = "Download as Image"
    /\ download = NoDownload

(***************************************************************************)
(* The loading indicator (Spec).                                           *)
(***************************************************************************)
\* C11 as stated: in each view the loading indicator is visible exactly
\* when at least one data request (timetable fetch, upload, shared-lecturer
\* fetch) is still outstanding.
C11_LoadingWhileOutstanding ==
    loadingVisible <=> (inflight # <<>>)
====
